---- MODULE Spec2Model ----
(***************************************************************************)
(* A model of models/agent.py: the Agent singleton (its construction       *)
(* protocol __new__ + __init__, update_config and the five accessors) and  *)
(* the AgentResponse dataclass with to_dict.                               *)
(*                                                                         *)
(* Python values are written as their repr strings ("True", "0.5",         *)
(* "agentA"); a list or dict value is a reference (a string naming the     *)
(* object), and the contents of the list objects live in the heap `lists`. *)
(***************************************************************************)
EXTENDS Integers, Sequences, FiniteSets, TLC

VARIABLES
    cls_instance,   \* Agent._instance: NoInstance (None) or the id of an Agent object
    nobjects,       \* how many Agent objects object.__new__ has allocated
    attrs,          \* attrs[o][f]: instance attribute f of Agent object o
    lists,          \* heap: contents of every list object
    returned,       \* history: the references the construction calls have returned
    calls,          \* history: "none", "first" or "later" construction call made
    last,           \* the last call: its operation, arguments, return value, error
    wpc,            \* concurrent update_config: wpc[w] = next assignment of writer w
    seen,           \* concurrent reader: the values its accessor calls returned
    resp,           \* the AgentResponse record under construction / serialisation
    out             \* the mapping the last to_dict returned

vars == <<cls_instance, nobjects, attrs, lists, returned, calls, last, wpc, seen, resp, out>>

-----------------------------------------------------------------------------
(* Bounds of the model *)

\* Agent objects the model lets object.__new__ allocate (the code allocates one).
MaxObjects == 2
\* Required keys an update_config mapping may lack.
MaxMissing == 1
\* Longest list the append of a caller may build.
MaxListLen == 2

-----------------------------------------------------------------------------
(* Values *)

\* Agent._instance = None
NoInstance == 0

\* The parameters of __init__ after self, in order; the same order is the
\* order of the eight assignments of __init__ and of update_config.
FieldOrder ==
    <<"name", "accepted_files", "accept_text", "rag", "context_weight",
      "analysis_weights", "sentiment_weights", "emotion_weights">>

Fields == {FieldOrder[i] : i \in 1..Len(FieldOrder)}

OptionalParams == Fields \ {"name"}

\* The default of each optional parameter. A default expression is evaluated
\* once, when the def statement runs: [] is one list object and each {} is one
\* dict object, and every call that omits the argument receives that object.
DefaultValue(f) ==
    CASE f = "accepted_files"    -> "list@default"
      [] f = "accept_text"       -> "True"
      [] f = "rag"               -> "True"
      [] f = "context_weight"    -> "0.5"
      [] f = "analysis_weights"  -> "dict@default.analysis_weights"
      [] f = "sentiment_weights" -> "dict@default.sentiment_weights"
      [] f = "emotion_weights"   -> "dict@default.emotion_weights"

\* The callers' values: two families A and B that differ in every field.
Profiles == {"A", "B"}

ProfileValue(p, f) ==
    CASE f = "name"              -> IF p = "A" THEN "agentA" ELSE "agentB"
      [] f = "accepted_files"    -> IF p = "A" THEN "list@A" ELSE "list@B"
      [] f = "accept_text"       -> IF p = "A" THEN "False" ELSE "True"
      [] f = "rag"               -> IF p = "A" THEN "False" ELSE "True"
      [] f = "context_weight"    -> IF p = "A" THEN "0.2" ELSE "0.9"
      [] f = "analysis_weights"  -> IF p = "A" THEN "dict@A.analysis" ELSE "dict@B.analysis"
      [] f = "sentiment_weights" -> IF p = "A" THEN "dict@A.sentiment" ELSE "dict@B.sentiment"
      [] f = "emotion_weights"   -> IF p = "A" THEN "dict@A.emotion" ELSE "dict@B.emotion"

ListRefs == {"list@default", "list@A", "list@B"}

\* The heap when the module has been imported: the default list is empty, the
\* callers' lists hold what the callers put in them.
InitialLists ==
    [r \in ListRefs |->
        CASE r = "list@default" -> <<>>
          [] r = "list@A"       -> <<"pdf">>
          [] r = "list@B"       -> <<"txt">>]

\* update_config reads self.name from config["agent_name"], every other field
\* from the key of its own name.
ConfigKey(f) == IF f = "name" THEN "agent_name" ELSE f

RequiredKeys == {ConfigKey(f) : f \in Fields}

ExtraKeys == {"temperature"}

\* No exception.
NoError == [type |-> "None", args |-> <<>>, context |-> <<>>]

\* raise KeyError("Invalid config") inside `except KeyError:`. A raise inside
\* an except block sets the new exception's __context__ to the exception
\* being handled, here the KeyError(key) of the failed config[key].
InvalidConfig(key) ==
    [type |-> "KeyError", args |-> <<"Invalid config">>,
     context |-> <<"KeyError", key>>]

-----------------------------------------------------------------------------
(* Agent *)

\* Mutant of AgentNew: the `if not cls._instance` guard dropped.
AgentNew_unguarded(inst, n) == [instance |-> n + 1, nobjects |-> n + 1]

\* Agent.__new__: allocate only when the class holds no instance yet.
AgentNew(inst, n) ==
    IF inst = NoInstance
    THEN [instance |-> n + 1, nobjects |-> n + 1]
    ELSE [instance |-> inst, nobjects |-> n]

\* Agent.__init__: the eight assignments; an omitted argument is its default.
AgentInit(args) ==
    [f \in Fields |-> IF f \in DOMAIN args THEN args[f] ELSE DefaultValue(f)]

\* Mutant of update_step: a copy-paste slip, context_weight read from config["rag"].
update_step_copy_paste(self_attrs, config, i) ==
    [self_attrs EXCEPT ![FieldOrder[i]] =
        IF FieldOrder[i] = "context_weight" THEN config["rag"]
        ELSE config[ConfigKey(FieldOrder[i])]]

\* The i-th assignment of update_config: self.<field> = config[<key>].
update_step(self_attrs, config, i) ==
    [self_attrs EXCEPT ![FieldOrder[i]] = config[ConfigKey(FieldOrder[i])]]

\* update_config from its i-th assignment on: config[key] raises KeyError at
\* the first absent key, before the assignment; the handler re-raises.
RECURSIVE update_from(_, _, _)
update_from(self_attrs, config, i) ==
    IF i > Len(FieldOrder)
    THEN [attrs |-> self_attrs, error |-> NoError]
    ELSE IF ConfigKey(FieldOrder[i]) \notin DOMAIN config
         THEN [attrs |-> self_attrs, error |-> InvalidConfig(ConfigKey(FieldOrder[i]))]
         ELSE update_from(update_step(self_attrs, config, i), config, i + 1)

\* Mutant of update_config: the key set must be exactly the required keys.
update_config_exact_keys(self_attrs, config) ==
    IF DOMAIN config = RequiredKeys
    THEN update_from(self_attrs, config, 1)
    ELSE [attrs |-> self_attrs, error |-> InvalidConfig("shape")]

\* Mutant of update_config: validate every key first, assign only if all are there.
update_config_atomic(self_attrs, config) ==
    IF RequiredKeys \subseteq DOMAIN config
    THEN update_from(self_attrs, config, 1)
    ELSE [attrs |-> self_attrs, error |-> update_from(self_attrs, config, 1).error]

update_config(self_attrs, config) == update_from(self_attrs, config, 1)

get_accepted_files(self_attrs) == self_attrs["accepted_files"]
\* Mutant of get_rag: returns the neighbouring field.
get_rag_wrong_field(self_attrs) == self_attrs["context_weight"]
get_rag(self_attrs) == self_attrs["rag"]
get_accept_text(self_attrs) == self_attrs["accept_text"]
get_context_weight(self_attrs) == self_attrs["context_weight"]
get_name(self_attrs) == self_attrs["name"]

Getters ==
    {"get_accepted_files", "get_rag", "get_accept_text", "get_context_weight", "get_name"}

Get(op, self_attrs) ==
    CASE op = "get_accepted_files" -> get_accepted_files(self_attrs)
      [] op = "get_rag"            -> get_rag(self_attrs)
      [] op = "get_accept_text"    -> get_accept_text(self_attrs)
      [] op = "get_context_weight" -> get_context_weight(self_attrs)
      [] op = "get_name"           -> get_name(self_attrs)

-----------------------------------------------------------------------------
(* Inputs *)

IsPrefix(S) ==
    \E k \in 1..Len(FieldOrder) : S = {FieldOrder[i] : i \in 2..k}

\* The argument lists of a construction call: name, then the first k optional
\* parameters passed positionally (k = 0 .. 7), the others omitted.
ConstructArgs ==
    {[f \in S \cup {"name"} |-> ProfileValue(p, f)] :
        p \in Profiles, S \in {T \in SUBSET OptionalParams : IsPrefix(T)}}

\* The key sets of the mappings passed to update_config: the required keys
\* with at most MaxMissing of them absent, or all of them and keys that are
\* not required.
ConfigKeySets ==
    {T \in SUBSET RequiredKeys : Cardinality(RequiredKeys \ T) <= MaxMissing}
        \cup {RequiredKeys \cup E : E \in SUBSET ExtraKeys}

Configs ==
    {[k \in K |-> IF k \in ExtraKeys THEN "0.7"
                  ELSE ProfileValue(p, CHOOSE f \in Fields : ConfigKey(f) = k)] :
        p \in Profiles, K \in ConfigKeySets}

-----------------------------------------------------------------------------
(* The sequential program *)

NoCall == [op |-> "import", args |-> <<>>, value |-> "None", error |-> NoError]

Init ==
    /\ cls_instance = NoInstance
    /\ nobjects = 0
    /\ attrs = <<>>
    /\ lists = InitialLists
    /\ returned = {}
    /\ calls = "none"
    /\ last = NoCall
    /\ wpc = <<>>
    /\ seen = <<>>
    /\ resp = <<>>
    /\ out = <<>>

\* Agent(name, ...): type.__call__ runs __new__, and because what __new__
\* returns is an instance of Agent it then runs __init__ on it, on every call.
Construct ==
    \E args \in ConstructArgs :
        LET n == AgentNew(cls_instance, nobjects)
            self == n.instance
        IN  /\ n.nobjects <= MaxObjects
            /\ cls_instance' = n.instance
            /\ nobjects' = n.nobjects
            /\ attrs' = [o \in 1..n.nobjects |->
                            IF o = self THEN AgentInit(args) ELSE attrs[o]]
            /\ returned' = returned \cup {self}
            /\ calls' = IF calls = "none" THEN "first" ELSE "later"
            /\ last' = [op |-> "Agent", args |-> args, value |-> "Agent",
                        error |-> NoError]
            /\ UNCHANGED <<lists, wpc, seen, resp, out>>

UpdateConfig ==
    /\ cls_instance # NoInstance
    /\ \E config \in Configs :
        LET r == update_config(attrs[cls_instance], config)
        IN  /\ attrs' = [attrs EXCEPT ![cls_instance] = r.attrs]
            /\ last' = [op |-> "update_config", args |-> config, value |-> "None",
                        error |-> r.error]
    /\ UNCHANGED <<cls_instance, nobjects, lists, returned, calls, wpc, seen, resp, out>>

Accessor(op) ==
    /\ cls_instance # NoInstance
    /\ last' = [op |-> op, args |-> <<>>, value |-> Get(op, attrs[cls_instance]),
                error |-> NoError]
    /\ UNCHANGED <<cls_instance, nobjects, attrs, lists, returned, calls, wpc, seen, resp, out>>

GetAcceptedFiles == Accessor("get_accepted_files")
GetRag == Accessor("get_rag")
GetAcceptText == Accessor("get_accept_text")
GetContextWeight == Accessor("get_context_weight")
GetName == Accessor("get_name")

Next ==
    \/ Construct
    \/ UpdateConfig
    \/ GetAcceptedFiles
    \/ GetRag
    \/ GetAcceptText
    \/ GetContextWeight
    \/ GetName

Spec == Init /\ [][Next]_vars

-----------------------------------------------------------------------------
(* Aliasing: what a caller does with the list an accessor hands out *)

\* get_accepted_files() returns the list object itself, so the caller's
\* get_accepted_files().append("doc") mutates the object the field refers to.
ListAppend ==
    /\ last.op \in {"get_accepted_files", "list.append"}
    /\ LET ref == IF last.op = "get_accepted_files" THEN last.value ELSE last.args[1]
       IN  /\ Len(lists[ref]) < MaxListLen
           /\ lists' = [lists EXCEPT ![ref] = Append(@, "doc")]
           /\ last' = [op |-> "list.append", args |-> <<ref, "doc">>, value |-> "None",
                       error |-> NoError]
    /\ UNCHANGED <<cls_instance, nobjects, attrs, returned, calls, wpc, seen, resp, out>>

NextAlias ==
    \/ Construct
    \/ GetAcceptedFiles
    \/ ListAppend

SpecAlias == Init /\ [][NextAlias]_vars

-----------------------------------------------------------------------------
(* Concurrency: two update_config calls and a reader on the one instance.   *)
(* The code takes no lock; a thread switch can fall between any two of the  *)
(* eight assignments and between any two accessor calls.                    *)

Writers == Profiles

\* The complete mapping writer w passes.
WriterConfig(w) ==
    [k \in RequiredKeys |-> ProfileValue(w, CHOOSE f \in Fields : ConfigKey(f) = k)]

\* The accessor calls the reader makes, one after the other.
ReadOrder == <<"get_name", "get_rag", "get_context_weight">>

Returned == Len(FieldOrder) + 1
Raised == Len(FieldOrder) + 2

\* Agent("agent0") has run; nothing else yet.
InitConc ==
    LET n == AgentNew(NoInstance, 0)
        args == [name |-> "agent0"]
    IN  /\ cls_instance = n.instance
        /\ nobjects = n.nobjects
        /\ attrs = [o \in 1..n.nobjects |-> AgentInit(args)]
        /\ lists = InitialLists
        /\ returned = {n.instance}
        /\ calls = "first"
        /\ last = [op |-> "Agent", args |-> args, value |-> "Agent", error |-> NoError]
        /\ wpc = [w \in Writers |-> 1]
        /\ seen = <<>>
        /\ resp = <<>>
        /\ out = <<>>

\* One assignment of writer w's update_config call.
WriterStep(w) ==
    /\ wpc[w] \in 1..Len(FieldOrder)
    /\ LET i == wpc[w]
           config == WriterConfig(w)
       IN  IF ConfigKey(FieldOrder[i]) \in DOMAIN config
           THEN /\ attrs' = [attrs EXCEPT ![cls_instance] = update_step(@, config, i)]
                /\ wpc' = [wpc EXCEPT ![w] = i + 1]
           ELSE /\ attrs' = attrs
                /\ wpc' = [wpc EXCEPT ![w] = Raised]
    /\ UNCHANGED <<cls_instance, nobjects, lists, returned, calls, last, seen, resp, out>>

WriterA == WriterStep("A")
WriterB == WriterStep("B")

\* The reader's next accessor call.
ReaderStep ==
    /\ Len(seen) < Len(ReadOrder)
    /\ seen' = Append(seen, Get(ReadOrder[Len(seen) + 1], attrs[cls_instance]))
    /\ UNCHANGED <<cls_instance, nobjects, attrs, lists, returned, calls, last, wpc, resp, out>>

NextConc ==
    \/ WriterA
    \/ WriterB
    \/ ReaderStep

SpecConc == InitConc /\ [][NextConc]_vars

-----------------------------------------------------------------------------
(* AgentResponse *)

ResponseFields ==
    {"response", "response_time", "context_time", "chat_history_time",
     "insert_history_time", "transcription_time"}

RequiredResponseFields == {"response", "response_time"}

\* The dataclass defaults.
ResponseDefault(f) ==
    CASE f = "context_time"        -> "-1.0"
      [] f = "chat_history_time"   -> "-1.0"
      [] f = "insert_history_time" -> "-1.0"
      [] f = "transcription_time"  -> "0.0"

\* The generated __init__: each field from its argument, or its default.
AgentResponseInit(args) ==
    [f \in ResponseFields |-> IF f \in DOMAIN args THEN args[f] ELSE ResponseDefault(f)]

\* Mutant of to_dict: response_time and transcription_time exchanged.
to_dict_swapped(self) ==
    [response            |-> self["response"],
     transcription_time  |-> self["response_time"],
     response_time       |-> self["transcription_time"],
     context_time        |-> self["context_time"],
     chat_history_time   |-> self["chat_history_time"],
     insert_history_time |-> self["insert_history_time"]]

to_dict(self) ==
    [response            |-> self["response"],
     transcription_time  |-> self["transcription_time"],
     response_time       |-> self["response_time"],
     context_time        |-> self["context_time"],
     chat_history_time   |-> self["chat_history_time"],
     insert_history_time |-> self["insert_history_time"]]

Responses == {"R1", "R2"}
Times == {"1.5", "0.3"}

ResponseArgs ==
    {[f \in S \cup RequiredResponseFields |-> v[f]] :
        S \in SUBSET (ResponseFields \ RequiredResponseFields),
        v \in [ResponseFields -> Responses \cup Times]}

ValidResponseArgs ==
    {a \in ResponseArgs :
        /\ a["response"] \in Responses
        /\ \A f \in DOMAIN a \ {"response"} : a[f] \in Times}

InitResp ==
    /\ cls_instance = NoInstance
    /\ nobjects = 0
    /\ attrs = <<>>
    /\ lists = InitialLists
    /\ returned = {}
    /\ calls = "none"
    /\ last = NoCall
    /\ wpc = <<>>
    /\ seen = <<>>
    /\ resp = <<>>
    /\ out = <<>>

\* AgentResponse(response, response_time, ...): a new record; nothing has been
\* serialised from it yet.
MakeResponse ==
    /\ \E args \in ValidResponseArgs :
        /\ resp' = AgentResponseInit(args)
        /\ last' = [op |-> "AgentResponse", args |-> args, value |-> "AgentResponse",
                    error |-> NoError]
    /\ out' = <<>>
    /\ UNCHANGED <<cls_instance, nobjects, attrs, lists, returned, calls, wpc, seen>>

\* resp.to_dict(); last.args stays the arguments the record was built from.
ToDict ==
    /\ resp # <<>>
    /\ out' = to_dict(resp)
    /\ last' = [last EXCEPT !.op = "to_dict", !.value = "dict"]
    /\ UNCHANGED <<cls_instance, nobjects, attrs, lists, returned, calls, wpc, seen, resp>>

NextResp ==
    \/ MakeResponse
    \/ ToDict

SpecResp == InitResp /\ [][NextResp]_vars

-----------------------------------------------------------------------------
(* The claims *)

Self == attrs[cls_instance]

IsUpdate == last.op = "update_config"

Complete(config) == RequiredKeys \subseteq DOMAIN config

\* The position in the assignment order of the first key a mapping lacks.
FirstMissing(config) ==
    CHOOSE i \in 1..Len(FieldOrder) :
        /\ ConfigKey(FieldOrder[i]) \notin DOMAIN config
        /\ \A j \in 1..(i - 1) : ConfigKey(FieldOrder[j]) \in DOMAIN config

\* The field each accessor is documented to return.
GetterField(op) ==
    CASE op = "get_accepted_files" -> "accepted_files"
      [] op = "get_rag"            -> "rag"
      [] op = "get_accept_text"    -> "accept_text"
      [] op = "get_context_weight" -> "context_weight"
      [] op = "get_name"           -> "name"

\* C1: every construction call returns a reference to the one instance the
\* class holds, and once Agent._instance is set no construction, update_config
\* or accessor call replaces or clears it.
C1_SingletonIdentity ==
    /\ [](\A r \in returned : r = cls_instance)
    /\ [][cls_instance # NoInstance => cls_instance' = cls_instance]_vars

\* A second construction call has returned, and only one reference was ever returned.
C1_Witness ==
    /\ calls = "later"
    /\ last.op = "Agent"
    /\ returned = {cls_instance}

\* C2 (as claimed): a construction call made after the first one leaves the
\* eight fields of the singleton unchanged.
C2_LaterConstructionKeepsFields ==
    [][calls # "none" /\ calls' = "later" /\ last'.op = "Agent" => attrs' = attrs]_vars

\* C3: an update_config call whose mapping holds all eight required keys
\* succeeds, from any reachable state; afterwards every field equals the
\* mapping's value for its key and the five accessors return those values.
C3_CompleteUpdateSucceeds ==
    (IsUpdate /\ Complete(last.args)) =>
        /\ last.error = NoError
        /\ \A f \in Fields : Self[f] = last.args[ConfigKey(f)]
        /\ get_name(Self) = last.args["agent_name"]
        /\ get_accepted_files(Self) = last.args["accepted_files"]
        /\ get_accept_text(Self) = last.args["accept_text"]
        /\ get_rag(Self) = last.args["rag"]
        /\ get_context_weight(Self) = last.args["context_weight"]

\* A complete update has just replaced fields that held other values.
C3_Witness ==
    /\ IsUpdate
    /\ DOMAIN last.args = RequiredKeys
    /\ last.args["agent_name"] = "agentB"
    /\ Self["context_weight"] = "0.9"
    /\ calls = "later"

\* C4 (as claimed): an update_config call whose mapping lacks a required key
\* fails with the error "Invalid config", and the error value is the same
\* whichever key is missing, so that it does not tell which key was missing.
C4_ErrorHidesMissingKey ==
    (IsUpdate /\ ~Complete(last.args)) =>
        /\ last.error.type = "KeyError"
        /\ last.error.args = <<"Invalid config">>
        /\ \A c \in Configs : ~Complete(c) => update_config(Self, c).error = last.error

\* C5 (as claimed): update_config fails for every mapping whose key set is
\* not exactly the eight required keys, extra keys included.
C5_OnlyExactKeySetAccepted ==
    (IsUpdate /\ DOMAIN last.args # RequiredKeys) => last.error # NoError

\* C5 (amended): update_config fails exactly when the mapping lacks a
\* required key; a mapping with all eight required keys and additional keys
\* succeeds, the additional keys being ignored.
C5_FailsIffKeyMissing ==
    IsUpdate =>
        /\ last.error # NoError <=> ~Complete(last.args)
        /\ (Complete(last.args) /\ DOMAIN last.args # RequiredKeys) =>
               \A f \in Fields : Self[f] = last.args[ConfigKey(f)]

\* An update with the eight required keys and one more key has succeeded.
C5_Witness ==
    /\ IsUpdate
    /\ Complete(last.args)
    /\ DOMAIN last.args # RequiredKeys
    /\ last.error = NoError

\* C6 (as claimed): a construction call that omits accepted_files gives the
\* field an empty list, whatever was appended to the list an earlier
\* defaulted construction yielded.
C6_DefaultListIsFresh ==
    (last.op = "Agent" /\ "accepted_files" \notin DOMAIN last.args) =>
        lists[get_accepted_files(Self)] = <<>>

\* C7: to_dict returns a mapping with exactly the six keys, each holding the
\* record's field unchanged; built from response and response_time alone, it
\* holds them, transcription_time 0.0 and the three other times -1.0.
C7_ToDictVerbatim ==
    out # <<>> =>
        /\ DOMAIN out = ResponseFields
        /\ \A k \in ResponseFields : out[k] = resp[k]
        /\ DOMAIN last.args = RequiredResponseFields =>
               out = [response            |-> last.args["response"],
                      transcription_time  |-> "0.0",
                      response_time       |-> last.args["response_time"],
                      context_time        |-> "-1.0",
                      chat_history_time   |-> "-1.0",
                      insert_history_time |-> "-1.0"]

\* to_dict has run on a record built from response and response_time alone.
C7_Witness ==
    /\ out # <<>>
    /\ last.op = "to_dict"
    /\ DOMAIN last.args = RequiredResponseFields

\* C8: an accessor call returns the current value of its field, raises
\* nothing and changes neither a field nor Agent._instance; only update_config
\* ever ends in an error.
C8_AccessorsPure ==
    /\ [][last'.op \in Getters =>
            /\ last'.error = NoError
            /\ last'.value = attrs[cls_instance][GetterField(last'.op)]
            /\ attrs' = attrs
            /\ cls_instance' = cls_instance]_vars
    /\ [](last.error # NoError => last.op = "update_config")

\* get_rag has returned a value that an update_config call put there.
C8_Witness ==
    /\ last.op = "get_rag"
    /\ last.value = "False"
    /\ Self["context_weight"] = "0.9"

\* C9: when update_config fails, the fields before the first missing key (in
\* the assignment order) hold the mapping's values, and every field from the
\* first missing key on keeps the value it had before the call.
C9_FailedUpdatePrefix ==
    [][(last'.op = "update_config" /\ last'.error # NoError) =>
        LET m == FirstMissing(last'.args)
        IN  \A i \in 1..Len(FieldOrder) :
                attrs'[cls_instance][FieldOrder[i]] =
                    IF i < m THEN last'.args[ConfigKey(FieldOrder[i])]
                    ELSE attrs[cls_instance][FieldOrder[i]]]_vars

\* A failed update has changed the name and kept a context_weight that
\* differs from the one its mapping holds.
C9_Witness ==
    /\ IsUpdate
    /\ last.error # NoError
    /\ "rag" \notin DOMAIN last.args
    /\ "context_weight" \in DOMAIN last.args
    /\ Self["name"] = last.args["agent_name"]
    /\ Self["accept_text"] = last.args["accept_text"]
    /\ Self["context_weight"] # last.args["context_weight"]
    /\ calls = "later"

WriterPassed(i) == {w \in Writers : wpc[w] > i}

\* C10: with two update_config calls interleaved assignment by assignment,
\* each field holds the value of one of the calls that has assigned it (its
\* old value if none has), and the reader sees only such values: nothing
\* orders the calls, so fields of both calls and old fields can stand side by
\* side (the witness).
C10_InterleavedValues ==
    /\ \A i \in 1..Len(FieldOrder) :
        LET f == FieldOrder[i]
        IN  IF WriterPassed(i) = {}
            THEN Self[f] = AgentInit([name |-> "agent0"])[f]
            ELSE Self[f] \in {ProfileValue(w, f) : w \in WriterPassed(i)}
    /\ \A k \in 1..Len(seen) :
        LET f == GetterField(ReadOrder[k])
        IN  seen[k] \in {AgentInit([name |-> "agent0"])[f]}
                            \cup {ProfileValue(w, f) : w \in Writers}
    /\ \A w \in Writers : wpc[w] # Raised

\* Both calls have returned, the fields are a mixture of the two mappings,
\* and the reader has seen a new name beside the old context_weight.
C10_Witness ==
    /\ \A w \in Writers : wpc[w] = Returned
    /\ \E f \in Fields : Self[f] = ProfileValue("A", f) /\ Self[f] # ProfileValue("B", f)
    /\ \E f \in Fields : Self[f] = ProfileValue("B", f) /\ Self[f] # ProfileValue("A", f)
    /\ Len(seen) = Len(ReadOrder)
    /\ seen[1] \in {"agentA", "agentB"}
    /\ seen[Len(ReadOrder)] = "0.5"

====
